---- MODULE Spec2Model ----
(***************************************************************************)
(* Model of the evaluation-report and assertion-refinement scripts:        *)
(*   generate-summary.js      (src/unnamed/part_000)                       *)
(*   refine-assertions.js     (src/unnamed/part_001, from line 33)         *)
(*   extract-failures.js      (src/scripts/extract-failures.js, 1-69)      *)
(*   generate-analysis-html.js(src/scripts/extract-failures.js, from 71)   *)
(* Text is modelled as a sequence of one-character strings, so that the    *)
(* regular expressions, split/join, trim and quoting of the scripts are    *)
(* computed character by character.                                        *)
(***************************************************************************)
EXTENDS Integers, Sequences, FiniteSets, TLC

VARIABLES
    doc,          \* text of the test-definition document read by the tool
    failures,     \* patchYaml: the failures argument
    refinements,  \* patchYaml: the refinements argument
    written,      \* patchYaml: text given to writeFileSync, or NoFile
    blocks,       \* loadYAML: the blocks kept by the filter
    tests,        \* loadYAML: config.tests, one metadata record per block
    segments,     \* the blocks of a second segmentation of the document
    results,      \* the result collection read from results.json
    tool,         \* which report tool is running
    nFolded,      \* number of results the tool's forEach has processed
    bySpec,       \* the groups: group key -> [pass, fail, cases]
    failedRows,   \* generate-analysis-html: the rows of failing tests
    recs,         \* generate-summary: recommendations; html: rate class
    extracted,    \* extract-failures: the failures array
    cssClass,     \* generate-analysis-html: the class of the overall rate
    verdict,      \* the verdict each tool computes for results[1]
    valueRest,    \* what follows "value:" on a line of a block
    assertion,    \* a failure record's failingAssertion
    matched,      \* whether patchYaml's loop takes the line
    args,         \* refine-assertions: process.argv.slice(2)
    apiKey,       \* refine-assertions: process.env.OPENAI_API_KEY
    files,        \* the file system: path -> content
    outputPath,   \* refine-assertions: where patchYaml writes
    requests,     \* number of requests sent to the service
    response,     \* the kind of answer the service gave
    exitCode,     \* exit status of the refine-assertions process
    dir,          \* .specalign/test_cases: the *.yaml files with their mtimes
    clock,        \* the latest modification time given out
    resultsFrom,  \* promptfoo-output/results.json: which file was evaluated
    failuresFrom, \* promptfoo-output/failures.json: which results it holds
    script,       \* the shell script that is running or ran last
    testFile,     \* the script's TEST_FILE
    made,         \* what the running script has produced so far
    patchLog,     \* the last patch: the file patched and the failures used
    runs,         \* number of script runs started
    shStatus,     \* exit status of the script that ran last
    pc            \* position of the running tool

patchV   == <<failures, refinements, written>>
segV     == <<blocks, tests, segments>>
verdictV == <<results, verdict>>
normV    == <<valueRest, assertion, matched>>
aggV     == <<tool, nFolded, bySpec, failedRows, recs, extracted, cssClass>>
refineV  == <<args, apiKey, files, outputPath, requests, response, exitCode>>
flowV    == <<dir, clock, resultsFrom, failuresFrom, script, testFile, made,
              patchLog, runs, shStatus>>

vars == <<doc, patchV, segV, verdictV, normV, aggV, refineV, flowV, pc>>

\* the values of the variables a tool does not use
PatchIdle   == failures = <<>> /\ refinements = <<>> /\ written = <<"<no file>">>
SegIdle     == blocks = <<>> /\ tests = <<>> /\ segments = <<>>
VerdictIdle == results = <<>> /\ verdict = <<>>
NormIdle    == valueRest = <<>> /\ assertion = <<>> /\ matched = "none"
AggIdle     == /\ tool = "none" /\ nFolded = 0 /\ bySpec = <<>>
               /\ failedRows = <<>> /\ recs = <<>> /\ extracted = <<>>
               /\ cssClass = "none"
RefineIdle  == /\ args = <<>> /\ apiKey = <<>> /\ files = <<>> /\ outputPath = <<>>
               /\ requests = 0 /\ response = "none" /\ exitCode = "none"
FlowIdle    == /\ dir = {} /\ clock = 0 /\ resultsFrom = <<>> /\ failuresFrom = <<>>
               /\ script = "none" /\ testFile = <<>> /\ made = {}
               /\ patchLog = <<>> /\ runs = 0 /\ shStatus = "none"

\* the variables a call of patchYaml leaves alone
othersPatch == <<segV, verdictV, normV, aggV, refineV, flowV>>

\* the variables loadYAML leaves alone
othersSeg == <<patchV, verdictV, normV, aggV, refineV, flowV>>

NoFile == <<"<no file>">>

----------------------------------------------------------------------------
(* JavaScript string primitives                                            *)

\* \s of a JavaScript regular expression (the characters the model uses)
IsWs(c) == c \in {" ", "\n", "\t", "\r"}

\* . of a JavaScript regular expression without the s flag
IsDot(c) == c \notin {"\n", "\r"}

IsQuote(c) == c \in {"'", "\""}

\* p occurs in s starting at index i
OccursAt(s, i, p) ==
    /\ i >= 1
    /\ i + Len(p) - 1 <= Len(s)
    /\ \A k \in 1..Len(p) : s[i + k - 1] = p[k]

\* String.prototype.includes
Includes(s, p) == \E i \in 1..(Len(s) + 1) : OccursAt(s, i, p)

\* the k-th smallest element of a finite set of integers
KthOf(S, k) == CHOOSE x \in S : Cardinality({y \in S : y < x}) = k - 1

\* the pieces of s between the one-character separators at the indices seps
CutAt(s, seps) ==
    LET n == Cardinality(seps)
        b == [k \in 0..(n + 1) |->
                IF k = 0 THEN 0
                ELSE IF k = n + 1 THEN Len(s) + 1
                ELSE KthOf(seps, k)]
    IN  [k \in 1..(n + 1) |-> SubSeq(s, b[k - 1] + 1, b[k] - 1)]

\* Array.prototype.join
RECURSIVE Join(_, _)
Join(parts, sep) ==
    IF Len(parts) = 0 THEN <<>>
    ELSE IF Len(parts) = 1 THEN parts[1]
    ELSE parts[1] \o sep \o Join(Tail(parts), sep)

\* length of the run of whitespace of s that starts at index i
RECURSIVE WsRun(_, _)
WsRun(s, i) ==
    IF i <= Len(s) /\ IsWs(s[i]) THEN 1 + WsRun(s, i + 1) ELSE 0

\* length of the run of whitespace of s that ends at index i
RECURSIVE WsRunBack(_, _)
WsRunBack(s, i) ==
    IF i >= 1 /\ IsWs(s[i]) THEN 1 + WsRunBack(s, i - 1) ELSE 0

\* String.prototype.trim
Trim(s) ==
    LET a == WsRun(s, 1)
    IN  IF a = Len(s) THEN <<>>
        ELSE SubSeq(s, a + 1, Len(s) - WsRunBack(s, Len(s)))

\* s.split('\n')
SplitLines(s) == CutAt(s, {i \in 1..Len(s) : s[i] = "\n"})

kwVars  == <<"v", "a", "r", "s", ":">>
kwTests == <<"t", "e", "s", "t", "s", ":", "\n">>
kwValue == <<"v", "a", "l", "u", "e", ":">>

\* the regular expression -\s+vars: matches s at index i
MarkerAt(s, i) ==
    /\ i <= Len(s)
    /\ s[i] = "-"
    /\ WsRun(s, i + 1) >= 1
    /\ OccursAt(s, i + 1 + WsRun(s, i + 1), kwVars)

\* s.split(/\n(?=-\s+vars:)/)
SplitBlocks(s) ==
    CutAt(s, {i \in 1..Len(s) : s[i] = "\n" /\ MarkerAt(s, i + 1)})

----------------------------------------------------------------------------
(* refine-assertions.js: normalisation, quoting and patchYaml              *)

\* s.replace(/\s+/g, ' ')
RECURSIVE CollapseWs(_)
CollapseWs(s) ==
    IF Len(s) = 0 THEN <<>>
    ELSE IF IsWs(s[1])
         THEN <<" ">> \o CollapseWs(SubSeq(s, 1 + WsRun(s, 1), Len(s)))
         ELSE <<s[1]>> \o CollapseWs(Tail(s))

norm(s) == Trim(CollapseWs(s))

\* s.replace(/^['"]|['"]$/g, ''): a quote at the start and a quote at the
\* end are removed independently of each other
StripQuotes(s) ==
    LET a == IF Len(s) >= 1 /\ IsQuote(s[1]) THEN 1 ELSE 0
        b == IF Len(s) >= 2 /\ IsQuote(s[Len(s)]) THEN 1 ELSE 0
    IN  SubSeq(s, 1 + a, Len(s) - b)

\* s.replace(/''/g, "'")
RECURSIVE Undouble(_)
Undouble(s) ==
    IF Len(s) = 0 THEN <<>>
    ELSE IF Len(s) >= 2 /\ s[1] = "'" /\ s[2] = "'"
         THEN <<"'">> \o Undouble(SubSeq(s, 3, Len(s)))
         ELSE <<s[1]>> \o Undouble(Tail(s))

unescapeYamlValue(str) ==
    IF Len(str) = 0 THEN <<>> ELSE Undouble(StripQuotes(Trim(str)))

\* s.replace(/'/g, "''")
RECURSIVE DoubleQuotes(_)
DoubleQuotes(s) ==
    IF Len(s) = 0 THEN <<>>
    ELSE (IF s[1] = "'" THEN <<"'", "'">> ELSE <<s[1]>>) \o DoubleQuotes(Tail(s))

escapeForYaml(str) == <<"'">> \o DoubleQuotes(str) \o <<"'">>

\* line.match(/^(\s*value:\s*)(.+)$/): ok, and the two groups.  \s* is
\* greedy and gives back its last character only when nothing is left for .+
ValueMatch(line) ==
    LET lead == WsRun(line, 1)
        p    == lead + Len(kwValue)
        w    == WsRun(line, p + 1)
        rest == Len(line) - p
        no   == [ok |-> FALSE, m1 |-> <<>>, m2 |-> <<>>]
    IN  IF ~OccursAt(line, lead + 1, kwValue) \/ rest = 0 THEN no
        ELSE IF w < rest
             THEN IF \A k \in (p + w + 1)..Len(line) : IsDot(line[k])
                  THEN [ok |-> TRUE, m1 |-> SubSeq(line, 1, p + w),
                        m2 |-> SubSeq(line, p + w + 1, Len(line))]
                  ELSE no
             ELSE IF IsDot(line[Len(line)])
                  THEN [ok |-> TRUE, m1 |-> SubSeq(line, 1, Len(line) - 1),
                        m2 |-> <<line[Len(line)]>>]
                  ELSE no

\* LineMatches with the assertion un-quoted like the line's value
LineMatches_bothSides(line, failingAssertion) ==
    LET m == ValueMatch(line)
    IN  /\ m.ok
        /\ norm(unescapeYamlValue(Trim(m.m2))) = norm(unescapeYamlValue(failingAssertion))

\* the condition of lines 167-171: the line is a value line whose value
\* equals the failing assertion after normalisation
LineMatches(line, failingAssertion) ==
    LET m == ValueMatch(line)
    IN  /\ m.ok
        /\ norm(unescapeYamlValue(Trim(m.m2))) = norm(failingAssertion)

\* refinementsByIndex[idx]: the last refinement with that testIndex wins
Undefined == <<"<undefined>">>

RefinedFor(refs, idx) ==
    LET S == {j \in 1..Len(refs) : refs[j].testIndex = idx}
    IN  IF S = {} THEN Undefined
        ELSE refs[CHOOSE j \in S : \A k \in S : k <= j].refinedAssertion

\* !refined
Falsy(x) == x = Undefined \/ Len(x) = 0

\* PatchBlock with the loop's break left out: the last matching line is
\* the one that stays replaced by a later iteration's choice
PatchBlock_lastHit(block, failingAssertion, refined) ==
    LET lines == SplitLines(block)
        hits  == {i \in 1..Len(lines) : LineMatches(lines[i], failingAssertion)}
    IN  IF hits = {} THEN Join(lines, <<"\n">>)
        ELSE LET i == CHOOSE h \in hits : \A g \in hits : g <= h
             IN  Join([lines EXCEPT ![i] =
                          ValueMatch(lines[i]).m1 \o escapeForYaml(refined)],
                      <<"\n">>)

\* the for loop of lines 166-174 followed by lines.join('\n')
PatchBlock(block, failingAssertion, refined) ==
    LET lines == SplitLines(block)
        hits  == {i \in 1..Len(lines) : LineMatches(lines[i], failingAssertion)}
    IN  IF hits = {} THEN Join(lines, <<"\n">>)
        ELSE LET i == CHOOSE h \in hits : \A g \in hits : h <= g
             IN  Join([lines EXCEPT ![i] =
                          ValueMatch(lines[i]).m1 \o escapeForYaml(refined)],
                      <<"\n">>)

\* PatchOne without the guard of line 159: a missing refinement is written
\* as the empty text
PatchOne_noGuard(testBlocks, f, refs) ==
    LET refined  == RefinedFor(refs, f.testIndex)
        blockIdx == f.testIndex - 1
    IN  IF blockIdx < 0 \/ blockIdx >= Len(testBlocks) THEN testBlocks
        ELSE [testBlocks EXCEPT ![blockIdx + 1] =
                 PatchBlock(testBlocks[blockIdx + 1], f.failingAssertion,
                            IF Falsy(refined) THEN <<>> ELSE refined)]

\* one call of the callback of failures.forEach (lines 157-176)
PatchOne(testBlocks, f, refs) ==
    LET refined  == RefinedFor(refs, f.testIndex)
        blockIdx == f.testIndex - 1
    IN  IF Falsy(refined) THEN testBlocks
        ELSE IF blockIdx < 0 \/ blockIdx >= Len(testBlocks) THEN testBlocks
        ELSE [testBlocks EXCEPT ![blockIdx + 1] =
                 PatchBlock(testBlocks[blockIdx + 1], f.failingAssertion, refined)]

RECURSIVE ApplyFailures(_, _, _)
ApplyFailures(testBlocks, fs, refs) ==
    IF Len(fs) = 0 THEN testBlocks
    ELSE ApplyFailures(PatchOne(testBlocks, Head(fs), refs), Tail(fs), refs)

\* yaml.match(/([\s\S]*?\n)tests:\n([\s\S]*)/): the indices of the
\* newlines that are followed by "tests:\n"
TestsAt(yaml) ==
    {i \in 1..Len(yaml) : yaml[i] = "\n" /\ OccursAt(yaml, i + 1, kwTests)}

HasTests(yaml) == TestsAt(yaml) # {}

HeaderEnd(yaml) == (CHOOSE i \in TestsAt(yaml) : \A j \in TestsAt(yaml) : i <= j)
                       + Len(kwTests)

\* HeaderOf without the + 'tests:\n'
HeaderOf_noKey(yaml) == SubSeq(yaml, 1, HeaderEnd(yaml) - Len(kwTests))

\* match[1] + 'tests:\n'
HeaderOf(yaml) == SubSeq(yaml, 1, HeaderEnd(yaml) - Len(kwTests)) \o kwTests

BodyOf(yaml) == SubSeq(yaml, HeaderEnd(yaml) + 1, Len(yaml))

\* patchYaml (lines 144-181): what it throws or what it writes
patchYaml(yaml, fs, refs) ==
    IF ~HasTests(yaml) THEN [threw |-> TRUE, newYaml |-> NoFile]
    ELSE [threw |-> FALSE,
          newYaml |-> HeaderOf(yaml)
                        \o Join(ApplyFailures(SplitBlocks(BodyOf(yaml)), fs, refs),
                                <<"\n">>)]

----------------------------------------------------------------------------
(* Inputs of the patcher: documents, failure records, refinements          *)

MaxBlocks == 2

lnX      == <<"x">>
lnTests  == <<"t", "e", "s", "t", "s", ":">>
lnVars   == <<"-", " ", "v", "a", "r", "s", ":">>
lnVars2  == <<"-", " ", " ", "v", "a", "r", "s", ":">>
lnValQA  == <<" ", "v", "a", "l", "u", "e", ":", " ", "'", "a", "'">>
lnValA   == <<" ", "v", "a", "l", "u", "e", ":", " ", "a">>
lnValB   == <<" ", "v", "a", "l", "u", "e", ":", " ", "b">>
lnEmpty  == <<>>

\* what precedes the first record of a document
Prefixes ==
    { <<lnX, lnTests>>,            \* a header ending in the tests: line
      <<lnTests>>,                 \* tests: is the first line of the file
      <<lnX, lnTests, lnX>>,       \* a line between tests: and the first record
      <<lnValQA, lnTests>> }       \* a header that holds a value line

\* the records of a document, each a list of lines
BlockPool ==
    { <<lnVars, lnValQA>>,
      <<lnVars, lnValB, lnValA, lnValQA, lnEmpty>>,
      <<lnVars2, lnX>> }

RECURSIVE Flatten(_)
Flatten(ss) == IF Len(ss) = 0 THEN <<>> ELSE Head(ss) \o Flatten(Tail(ss))

BlockLists == UNION {[1..n -> BlockPool] : n \in 0..MaxBlocks}

PatchDocs ==
    {Join(p \o Flatten(bs), <<"\n">>) : p \in Prefixes, bs \in BlockLists}

txA  == <<"a">>
txB  == <<"b">>
txR  == <<"c", "'", "d">>

FailRecs == [testIndex : 0..(MaxBlocks + 1), failingAssertion : {txA, txB}]

\* failures.json as extract-failures writes it: testIndex strictly increasing
FailureSeqs ==
    {<<>>} \cup {<<f>> : f \in FailRecs}
           \cup {<<fg[1], fg[2]>> :
                   fg \in {x \in FailRecs \X FailRecs :
                              x[1].testIndex < x[2].testIndex}}

RefRecs == [testIndex : 1..MaxBlocks, refinedAssertion : {<<>>, txR}]

\* the service's answer: any list of refinements
RefinementSeqs ==
    {<<>>} \cup {<<r>> : r \in RefRecs} \cup {<<r, q>> : r \in RefRecs, q \in RefRecs}

----------------------------------------------------------------------------
(* Specification of a call of patchYaml                                    *)

InitPatch ==
    /\ doc \in PatchDocs
    /\ failures = <<>>
    /\ refinements = <<>>
    /\ written = NoFile
    /\ SegIdle /\ VerdictIdle /\ NormIdle /\ AggIdle /\ RefineIdle /\ FlowIdle
    /\ pc = "ready"

\* patchYaml(yamlPath, failures, refinements, outputPath)
CallPatchYaml ==
    /\ pc = "ready"
    /\ \E fs \in FailureSeqs, refs \in RefinementSeqs :
          LET r == patchYaml(doc, fs, refs)
          IN  /\ failures' = fs
              /\ refinements' = refs
              /\ written' = r.newYaml
              /\ pc' = IF r.threw THEN "threw" ELSE "written"
    /\ UNCHANGED <<doc, othersPatch>>

NextPatch == CallPatchYaml

SpecPatch == InitPatch /\ [][NextPatch]_vars

----------------------------------------------------------------------------
(* Properties of patchYaml, checked under SpecPatch                        *)

\* the blocks patchYaml finds in the document
InBlocks == SplitBlocks(BodyOf(doc))

\* number of characters of the document before block k
RECURSIVE BlockStart(_)
BlockStart(k) ==
    IF k = 1 THEN Len(HeaderOf(doc))
    ELSE BlockStart(k - 1) + Len(InBlocks[k - 1]) + 1

\* number of characters of the document before line i of block k
RECURSIVE LineStart(_, _)
LineStart(k, i) ==
    IF i = 1 THEN BlockStart(k)
    ELSE LineStart(k, i - 1) + Len(SplitLines(InBlocks[k])[i - 1]) + 1

\* the first line of block k that matches the assertion a, or 0
FirstHit(k, a) ==
    LET ls == SplitLines(InBlocks[k])
        H  == {i \in 1..Len(ls) : LineMatches(ls[i], a)}
    IN  IF H = {} THEN 0 ELSE CHOOSE i \in H : \A g \in H : i <= g

\* the failures that have a refinement, a block and a matching line
Effective ==
    {j \in 1..Len(failures) :
        /\ ~Falsy(RefinedFor(refinements, failures[j].testIndex))
        /\ failures[j].testIndex \in 1..Len(InBlocks)
        /\ FirstHit(failures[j].testIndex, failures[j].failingAssertion) # 0}

\* text with the line of failure j replaced, the rest taken from text as is
Spliced(text, j) ==
    LET k   == failures[j].testIndex
        i   == FirstHit(k, failures[j].failingAssertion)
        ln  == SplitLines(InBlocks[k])[i]
        st  == LineStart(k, i)
    IN  SubSeq(text, 1, st)
          \o ValueMatch(ln).m1
          \o escapeForYaml(RefinedFor(refinements, k))
          \o SubSeq(text, st + Len(ln) + 1, Len(text))

\* the document with the matched lines of the failures j..1 replaced, the
\* last one first, so that the offsets of the earlier ones stay those of doc
RECURSIVE SplicedFrom(_, _)
SplicedFrom(text, j) ==
    IF j = 0 THEN text
    ELSE SplicedFrom(IF j \in Effective THEN Spliced(text, j) ELSE text, j - 1)

\* C1 (patch locality): the written document is the input document with, for
\* each failure that has a refinement and a matching value line in its block,
\* that one line replaced by its key prefix followed by the quoted refined
\* text; the header, every other block and every other line of the block are
\* byte-identical.
C1_PatchLocality ==
    pc = "written" => written = SplicedFrom(doc, Len(failures))

\* a refinement has replaced a line of one block of a document that has
\* another block holding the same value line
C1_Witness ==
    /\ pc = "written"
    /\ Cardinality(Effective) = 1
    /\ Len(InBlocks) >= 2
    /\ written # doc
    /\ \E j \in Effective, k \in 1..Len(InBlocks) :
          /\ k # failures[j].testIndex
          /\ FirstHit(k, failures[j].failingAssertion) # 0

\* block k as the patcher leaves it: with the first matching line replaced
\* when a failure with a refinement targets it, as it was otherwise
ExpectedBlock(k) ==
    LET J == {j \in Effective : failures[j].testIndex = k}
    IN  IF J = {} THEN InBlocks[k]
        ELSE LET j  == CHOOSE x \in J : TRUE
                 ls == SplitLines(InBlocks[k])
                 i  == FirstHit(k, failures[j].failingAssertion)
             IN  Join([ls EXCEPT ![i] = ValueMatch(ls[i]).m1
                          \o escapeForYaml(RefinedFor(refinements, k))],
                      <<"\n">>)

\* C12: whether patchYaml throws depends on the document alone (it throws
\* exactly when the document has no tests: section), never on the failures or
\* the refinements; and in the written document every block is byte-identical
\* to the input block unless a failure targets it that has a refinement and a
\* matching value line, in which case it is patched, whatever failures were
\* skipped before it: a failure without a refinement, a refinement without a
\* failure or outside the blocks, and a failure whose assertion matches no
\* value line change nothing and stop nothing.
C12_SilentSkip ==
    pc # "ready" =>
        /\ pc = "threw" <=> ~HasTests(doc)
        /\ pc = "written" =>
              written = HeaderOf(doc)
                          \o Join([k \in 1..Len(InBlocks) |-> ExpectedBlock(k)],
                                  <<"\n">>)

\* a failure whose block holds no matching line is skipped and the failure
\* after it is applied, with a refinement left over for no failure
C12_Witness ==
    /\ pc = "written"
    /\ Len(failures) = 2 /\ Len(refinements) = 2
    /\ Effective = {2}
    /\ ~Falsy(RefinedFor(refinements, failures[1].testIndex))
    /\ failures[1].testIndex \in 1..Len(InBlocks)
    /\ written # doc

\* C2 as stated (patch idempotence for every input document): with no
\* refinements the output is byte-identical to the input.
C2_Original ==
    (pc # "ready" /\ refinements = <<>>) => written = doc

\* C2 amended: with no refinements, a document that holds a line "tests:"
\* after a line break is written out byte-identical; for any other document
\* patchYaml throws and writes nothing.
C2_PatchIdempotence ==
    (pc # "ready" /\ refinements = <<>>) =>
        IF Includes(doc, <<"\n">> \o kwTests)
        THEN pc = "written" /\ written = doc
        ELSE pc = "threw" /\ written = NoFile

\* a document of two blocks was written back with failures but no refinement
C2_Witness ==
    /\ pc = "written"
    /\ refinements = <<>>
    /\ Len(failures) = 2
    /\ Len(InBlocks) >= 2
    /\ written = doc

----------------------------------------------------------------------------
(* generate-summary.js / generate-analysis-html.js: loadYAML               *)

kwSpecReq == <<"s", "p", "e", "c", "_", "r", "e", "q", "u", "i", "r", "e", "m", "e", "n", "t", "s", ":">>
kwRequirement == <<"r", "e", "q", "u", "i", "r", "e", "m", "e", "n", "t", ":">>

\* the maximal run of characters other than "\n" of s that starts at i
RECURSIVE LineRun(_, _)
LineRun(s, i) ==
    IF i <= Len(s) /\ s[i] # "\n" THEN <<s[i]>> \o LineRun(s, i + 1) ELSE <<>>

\* the maximal run of characters that are not line terminators from i
RECURSIVE DotRun(_, _)
DotRun(s, i) ==
    IF i <= Len(s) /\ IsDot(s[i]) THEN <<s[i]>> \o DotRun(s, i + 1) ELSE <<>>

\* /spec_requirements:\s*\n\s*-\s+([^\n]+)/ tried at the occurrence of
\* spec_requirements: at index i: ok, and group 1.  \s+ is greedy and gives
\* characters back only when it has run to the end of the block
SpecMatchAt(block, i) ==
    LET j  == i + Len(kwSpecReq)
        w1 == WsRun(block, j)
        d  == j + w1                        \* where the dash must be
        w2 == WsRun(block, d + 1)
        q  == d + 1 + w2                    \* first character after \s+
        B  == {k \in 1..(w2 - 1) : block[d + 1 + k] # "\n"}
        no == [ok |-> FALSE, g |-> <<>>]
    IN  IF ~(/\ OccursAt(block, i, kwSpecReq)
             /\ \E k \in j..(d - 1) : block[k] = "\n"
             /\ d <= Len(block) /\ block[d] = "-"
             /\ w2 >= 1)
        THEN no
        ELSE IF q <= Len(block) THEN [ok |-> TRUE, g |-> LineRun(block, q)]
        ELSE IF B = {} THEN no
        ELSE [ok |-> TRUE,
              g |-> LineRun(block, d + 1 + (CHOOSE k \in B : \A h \in B : h <= k))]

\* block.match(/spec_requirements:\s*\n\s*-\s+([^\n]+)/): the leftmost match
specMatch(block) ==
    LET S == {i \in 1..Len(block) : SpecMatchAt(block, i).ok}
    IN  IF S = {} THEN [ok |-> FALSE, g |-> <<>>]
        ELSE SpecMatchAt(block, CHOOSE i \in S : \A h \in S : i <= h)

\* /requirement:\s*(.+?)(?=\n|$)/m tried at index i: ok, and group 1
RequirementMatchAt(block, i) ==
    LET j  == i + Len(kwRequirement)
        w  == WsRun(block, j)
        q  == j + w
        B  == {k \in 0..(w - 1) : IsDot(block[j + k])}
        no == [ok |-> FALSE, g |-> <<>>]
    IN  IF ~OccursAt(block, i, kwRequirement) THEN no
        ELSE IF q <= Len(block) THEN [ok |-> TRUE, g |-> DotRun(block, q)]
        ELSE IF B = {} THEN no
        ELSE [ok |-> TRUE,
              g |-> DotRun(block, j + (CHOOSE k \in B : \A h \in B : h <= k))]

requirementMatch(block) ==
    LET S == {i \in 1..Len(block) : RequirementMatchAt(block, i).ok}
    IN  IF S = {} THEN [ok |-> FALSE, g |-> <<>>]
        ELSE RequirementMatchAt(block, CHOOSE i \in S : \A h \in S : i <= h)

txUnknown == <<"u", "n", "k", "n", "o", "w", "n">>

\* Array.prototype.filter
RECURSIVE Filter(_, _)
Filter(parts, p) ==
    IF Len(parts) = 0 THEN <<>>
    ELSE (IF Includes(Head(parts), p) THEN <<Head(parts)>> ELSE <<>>)
            \o Filter(Tail(parts), p)

\* loadYAML without its filter
loadBlocks_noFilter(raw) == SplitBlocks(raw)

\* raw.split(/\n(?=-\s+vars:)/).filter(b => b.includes('vars:'))
loadBlocks(raw) == Filter(SplitBlocks(raw), kwVars)

\* the metadata record loadYAML builds for a block (part_000:23-30)
metadataOf(block) ==
    [spec_requirements |->
        IF specMatch(block).ok THEN Trim(specMatch(block).g) ELSE txUnknown,
     requirement |->
        IF requirementMatch(block).ok THEN Trim(requirementMatch(block).g)
        ELSE <<>>]

\* loadYAML(filePath).tests
loadYAML(raw) == [k \in 1..Len(loadBlocks(raw)) |-> metadataOf(loadBlocks(raw)[k])]

----------------------------------------------------------------------------
(* Inputs and specification of loadYAML                                    *)

lnDash    == <<"-">>
lnIVars   == <<" ", "v", "a", "r", "s", ":">>
lnNoSpace == <<"-", "v", "a", "r", "s", ":">>
lnSpecReq == <<" ", "s", "p", "e", "c", "_", "r", "e", "q", "u", "i", "r", "e", "m", "e", "n", "t", "s", ":">>
lnTone    == <<" ", " ", "-", " ", "t", "o", "n", "e">>
lnBlank   == <<" ", " ", "-", " ", " ">>
lnReq     == <<" ", "r", "e", "q", "u", "i", "r", "e", "m", "e", "n", "t", ":", " ", "r">>

\* what precedes the first record of a test-definition document
SegPrefixes ==
    { <<>>,                        \* the document starts with a record
      <<lnX, lnTests>>,            \* a header
      <<lnIVars, lnTests>>,        \* a header that holds an indented vars: key
      <<lnNoSpace>> }              \* a line -vars: that is no record marker

SegBlockPool ==
    { <<lnVars, lnSpecReq, lnTone, lnReq>>,
      <<lnVars2>>,
      <<lnVars, lnSpecReq, lnBlank>>,      \* a list item of spaces only
      <<lnDash, lnIVars, lnEmpty>> }       \* a marker whose \s+ spans a line break

SegBlockLists == UNION {[1..n -> SegBlockPool] : n \in 0..MaxBlocks}

SegDocs ==
    {Join(p \o Flatten(bs), <<"\n">>) : p \in SegPrefixes, bs \in SegBlockLists}

InitSeg ==
    /\ doc \in SegDocs
    /\ blocks = <<>>
    /\ tests = <<>>
    /\ segments = <<>>
    /\ PatchIdle /\ VerdictIdle /\ NormIdle /\ AggIdle /\ RefineIdle /\ FlowIdle
    /\ pc = "ready"

\* loadYAML(configPath)
LoadYAML ==
    /\ pc = "ready"
    /\ blocks' = loadBlocks(doc)
    /\ tests' = loadYAML(doc)
    /\ pc' = "loaded"
    /\ UNCHANGED <<doc, segments, othersSeg>>

NextSeg == LoadYAML

SpecSeg == InitSeg /\ [][NextSeg]_vars

\* the indices of the document at which a record marker starts a line
Markers ==
    {i \in 1..Len(doc) : MarkerAt(doc, i) /\ (i = 1 \/ doc[i - 1] = "\n")}

\* C3 as stated: N record markers give exactly N blocks, and the blocks joined
\* by the newline separators reconstruct the document exactly.
C3_Original ==
    pc = "loaded" =>
        /\ Len(blocks) = Cardinality(Markers)
        /\ Join(blocks, <<"\n">>) = doc

\* the text before the first record marker, without the line break that ends it
Leading ==
    IF Markers = {} THEN doc
    ELSE SubSeq(doc, 1, (CHOOSE i \in Markers : \A h \in Markers : i <= h) - 2)

\* C3 amended: a document with N record markers gives the N blocks that start
\* at the markers, preceded by its leading content as one more block exactly
\* when the document does not start with a marker and that content contains
\* "vars:"; the blocks joined by newlines reconstruct the document exactly
\* when no leading content was discarded, and otherwise the document from its
\* first marker on.
C3_Segmenter ==
    pc = "loaded" =>
        IF 1 \in Markers \/ Includes(Leading, kwVars)
        THEN /\ Len(blocks) =
                   Cardinality(Markers) + (IF 1 \in Markers THEN 0 ELSE 1)
             /\ Join(blocks, <<"\n">>) = doc
        ELSE /\ Len(blocks) = Cardinality(Markers)
             /\ Join(blocks, <<"\n">>) =
                   SubSeq(doc, Len(Leading) + 2, Len(doc))

\* a document with a header and two records has been segmented: the header
\* is gone from the blocks
C3_Witness ==
    /\ pc = "loaded"
    /\ Cardinality(Markers) = 2
    /\ 1 \notin Markers
    /\ Len(blocks) = 2
    /\ Join(blocks, <<"\n">>) # doc

----------------------------------------------------------------------------
(* The verdict of a result entry, as each of the three tools computes it   *)

\* a flag of a result entry: not there, true or false
Flag == {"absent", "true", "false"}

\* r.gradingResult && r.gradingResult.pass === true; gradingResult is a
\* sequence of length 0 (absent) or 1
GradingPass(r) ==
    Len(r.gradingResult) = 1 /\ r.gradingResult[1].pass = "true"

\* the verdict decided by the first flag that is present
verdict_priority(r) ==
    IF r.success # "absent" THEN r.success = "true"
    ELSE IF r.pass # "absent" THEN r.pass = "true"
    ELSE GradingPass(r)

\* generate-summary.js (part_000:115)
verdictSummary(r) == r.success = "true" \/ r.pass = "true" \/ GradingPass(r)

\* generate-analysis-html.js (extract-failures.js:140)
verdictHtml(r) == r.success = "true" \/ r.pass = "true" \/ GradingPass(r)

\* extract-failures.js (extract-failures.js:35)
verdictExtract(r) == r.success = "true" \/ r.pass = "true" \/ GradingPass(r)

NoVerdict == [summary |-> "none", html |-> "none", extract |-> "none"]

\* result entries with every combination of the three flags
FlagEntries ==
    {[success |-> s, pass |-> p, gradingResult |-> g] :
        s \in Flag, p \in Flag,
        g \in {<<>>} \cup {<<[pass |-> q]>> : q \in Flag}}

InitVerdict ==
    /\ doc = <<>>
    /\ results \in {<<r>> : r \in FlagEntries}
    /\ verdict = NoVerdict
    /\ PatchIdle /\ SegIdle /\ NormIdle /\ AggIdle /\ RefineIdle /\ FlowIdle
    /\ pc = "ready"

othersVerdict == <<doc, patchV, segV, normV, aggV, refineV, flowV, pc>>

AsVerdict(b) == IF b THEN "pass" ELSE "fail"

JudgeSummary ==
    /\ verdict.summary = "none"
    /\ verdict' = [verdict EXCEPT !.summary = AsVerdict(verdictSummary(results[1]))]
    /\ UNCHANGED <<results, othersVerdict>>

JudgeHtml ==
    /\ verdict.html = "none"
    /\ verdict' = [verdict EXCEPT !.html = AsVerdict(verdictHtml(results[1]))]
    /\ UNCHANGED <<results, othersVerdict>>

JudgeExtract ==
    /\ verdict.extract = "none"
    /\ verdict' = [verdict EXCEPT !.extract = AsVerdict(verdictExtract(results[1]))]
    /\ UNCHANGED <<results, othersVerdict>>

NextVerdict == JudgeSummary \/ JudgeHtml \/ JudgeExtract

SpecVerdict == InitVerdict /\ [][NextVerdict]_vars

Tools == {"summary", "html", "extract"}

\* the verdict the claim states: the first present flag among success, pass
\* and gradingResult.pass decides; fail when none is present
ClaimedVerdict(r) ==
    IF r.success # "absent" THEN AsVerdict(r.success = "true")
    ELSE IF r.pass # "absent" THEN AsVerdict(r.pass = "true")
    ELSE IF Len(r.gradingResult) = 1 /\ r.gradingResult[1].pass # "absent"
         THEN AsVerdict(r.gradingResult[1].pass = "true")
    ELSE "fail"

\* C4 as stated: in each tool the first present flag, in the order success,
\* pass, gradingResult.pass, decides the verdict, whatever the lower ones say.
C4_Original ==
    \A t \in Tools : verdict[t] # "none" => verdict[t] = ClaimedVerdict(results[1])

\* C4 amended: in each of the three tools the verdict is pass exactly when at
\* least one of success, pass and gradingResult.pass is true, and fail
\* otherwise (also when none is present); a flag that is false does not
\* override a lower-priority flag that is true.
C4_Verdict ==
    \A t \in Tools :
        verdict[t] # "none" =>
            (verdict[t] = "pass" <=>
                \/ results[1].success = "true"
                \/ results[1].pass = "true"
                \/ \E k \in 1..Len(results[1].gradingResult) :
                      results[1].gradingResult[k].pass = "true")

\* an entry whose success flag is false and whose pass flag is true has been
\* judged by the three tools
C4_Witness ==
    /\ results[1].success = "false"
    /\ results[1].pass = "true"
    /\ \A t \in Tools : verdict[t] = "pass"

----------------------------------------------------------------------------
(* The line test of patchYaml as a function of the value and the assertion *)

MaxStr == 3

Alphabet == {"a", " ", "'", "\""}

Strs == UNION {[1..n -> Alphabet] : n \in 0..MaxStr}

InitNorm ==
    /\ doc = <<>>
    /\ valueRest \in Strs
    /\ assertion \in Strs
    /\ matched = "none"
    /\ PatchIdle /\ SegIdle /\ VerdictIdle /\ AggIdle /\ RefineIdle /\ FlowIdle
    /\ pc = "ready"

\* one iteration of the loop of lines 166-174 on the line " value:" + valueRest
MatchLine ==
    /\ matched = "none"
    /\ matched' = IF LineMatches(<<" ">> \o kwValue \o valueRest, assertion)
                  THEN "yes" ELSE "no"
    /\ UNCHANGED <<valueRest, assertion, doc, patchV, segV, verdictV, aggV, refineV,
                   flowV, pc>>

NextNorm == MatchLine

SpecNorm == InitNorm /\ [][NextNorm]_vars

\* C8 as stated: a value line matches exactly when one normalisation N
\* (collapse whitespace, strip one layer of quotes, un-escape doubled single
\* quotes) gives the same text for the line's value and for the assertion.
C8_Original ==
    (matched # "none" /\ norm(valueRest) # <<>>) =>
        (matched = "yes" <=>
            norm(unescapeYamlValue(valueRest)) = norm(unescapeYamlValue(assertion)))

\* C8 amended: quote stripping and un-escaping are applied to the line's
\* value only; the line matches exactly when the value, trimmed, stripped of
\* one quote at each end, un-escaped and whitespace-collapsed, equals the
\* failing assertion with its whitespace collapsed and nothing else changed.
\* A line with nothing after "value:" never matches.
C8_Match ==
    matched # "none" =>
        (matched = "yes" <=>
            /\ Len(valueRest) > 0
            /\ norm(Undouble(StripQuotes(Trim(valueRest)))) = Trim(CollapseWs(assertion)))

\* a quoted value and the same quoted text as the assertion: no match
C8_Witness ==
    /\ matched = "no"
    /\ valueRest = <<"'", "a", "'">>
    /\ assertion = <<"'", "a", "'">>

----------------------------------------------------------------------------
(* generate-summary.js and generate-analysis-html.js: correlation, groups  *)

\* bySpec = {}
EmptyMap == <<>>

\* tests[i] || {} ... specs[0] (part_000:110-113), i counted from 0
specKeySummary(ts, i) ==
    IF i + 1 <= Len(ts) THEN ts[i + 1].spec_requirements ELSE txUnknown

\* meta.requirement || '' (part_000:117)
requirementSummary(ts, i) ==
    IF i + 1 <= Len(ts) THEN ts[i + 1].requirement ELSE <<>>

\* (test.metadata && ... spec_requirements[0]) || 'unknown'
\* (extract-failures.js:138): an empty key is falsy
specKeyHtml(ts, i) ==
    IF i + 1 <= Len(ts) /\ Len(ts[i + 1].spec_requirements) > 0
    THEN ts[i + 1].spec_requirements ELSE txUnknown

\* the callback of results.forEach with else bySpec[specKey].fail++ left out
foldSummary_noFail(m, ts, r, i) ==
    LET key == specKeySummary(ts, i)
        m1  == IF key \in DOMAIN m THEN m
               ELSE m @@ (key :> [pass |-> 0, fail |-> 0, cases |-> <<>>])
        ok  == verdictSummary(r)
    IN  [m1 EXCEPT ![key] =
            [pass  |-> IF ok THEN @.pass + 1 ELSE @.pass,
             fail  |-> @.fail,
             cases |-> Append(@.cases,
                              [index |-> i + 1, success |-> ok,
                               requirement |-> requirementSummary(ts, i)])]]

\* the callback of results.forEach of generate-summary (part_000:109-118)
foldSummary(m, ts, r, i) ==
    LET key == specKeySummary(ts, i)
        m1  == IF key \in DOMAIN m THEN m
               ELSE m @@ (key :> [pass |-> 0, fail |-> 0, cases |-> <<>>])
        ok  == verdictSummary(r)
    IN  [m1 EXCEPT ![key] =
            [pass  |-> IF ok THEN @.pass + 1 ELSE @.pass,
             fail  |-> IF ok THEN @.fail ELSE @.fail + 1,
             cases |-> Append(@.cases,
                              [index |-> i + 1, success |-> ok,
                               requirement |-> requirementSummary(ts, i)])]]

\* the counting part of the callback of resultsArray.forEach of
\* generate-analysis-html (extract-failures.js:136-141); the groups of this
\* tool keep no case list
foldHtml(m, ts, r, i) ==
    LET key == specKeyHtml(ts, i)
        m1  == IF key \in DOMAIN m THEN m
               ELSE m @@ (key :> [pass |-> 0, fail |-> 0, cases |-> <<>>])
        ok  == verdictHtml(r)
    IN  [m1 EXCEPT ![key] =
            [pass  |-> IF ok THEN @.pass + 1 ELSE @.pass,
             fail  |-> IF ok THEN @.fail ELSE @.fail + 1,
             cases |-> @.cases]]

\* Object.values(bySpec).forEach(s => { totalPass += s.pass; ... })
RECURSIVE SumOf(_, _, _)
SumOf(m, S, field) ==
    IF S = {} THEN 0
    ELSE LET k == CHOOSE x \in S : TRUE
         IN  (IF field = "pass" THEN m[k].pass ELSE m[k].fail)
                + SumOf(m, S \ {k}, field)

totalPassOf(m) == SumOf(m, DOMAIN m, "pass")
totalFailOf(m) == SumOf(m, DOMAIN m, "fail")

\* getRecommendations with passRate <= 40 for its first test
getRecommendations_le(m, totalPass, totalFail, total) ==
    IF total = 0 THEN <<[kind |-> "generate", specs |-> {}]>>
    ELSE LET weak == {k \in DOMAIN m :
                         IF m[k].pass + m[k].fail > 0
                         THEN 100 * m[k].pass < 50 * (m[k].pass + m[k].fail)
                         ELSE TRUE}
         IN  <<[kind |-> IF 100 * totalPass <= 40 * total THEN "low"
                         ELSE IF 100 * totalPass < 70 * total THEN "moderate"
                         ELSE "good",
                specs |-> {}]>>
             \o (IF weak # {} THEN <<[kind |-> "weak", specs |-> weak]>> ELSE <<>>)
             \o <<[kind |-> "artifact", specs |-> {}],
                  [kind |-> "improve", specs |-> {}]>>

\* getRecommendations (part_000:35-66): the recommendation lines, each by
\* its kind.  passRate = (totalPass / total) * 100 is compared with 40, 70
\* and 50; in IEEE doubles these comparisons agree with the exact ones
\* written here by cross-multiplication
getRecommendations(m, totalPass, totalFail, total) ==
    IF total = 0 THEN <<[kind |-> "generate", specs |-> {}]>>
    ELSE LET weak == {k \in DOMAIN m :
                         IF m[k].pass + m[k].fail > 0
                         THEN 100 * m[k].pass < 50 * (m[k].pass + m[k].fail)
                         ELSE TRUE}
         IN  <<[kind |-> IF 100 * totalPass < 40 * total THEN "low"
                         ELSE IF 100 * totalPass < 70 * total THEN "moderate"
                         ELSE "good",
                specs |-> {}]>>
             \o (IF weak # {} THEN <<[kind |-> "weak", specs |-> weak]>> ELSE <<>>)
             \o <<[kind |-> "artifact", specs |-> {}],
                  [kind |-> "improve", specs |-> {}]>>

\* Math.round((totalPass / total) * 100) || 0 (extract-failures.js:171); the
\* double computation gives this integer for every total below 40
passPctOf(totalPass, total) ==
    IF total = 0 THEN 0 ELSE (200 * totalPass + total) \div (2 * total)

\* passPct >= 70 ? 'ok' : passPct >= 40 ? 'warn' : 'bad' (extract-failures.js:225)
rateClass(passPct) ==
    IF passPct >= 70 THEN "ok" ELSE IF passPct >= 40 THEN "warn" ELSE "bad"

MaxResults == 3

\* the shapes of result entries the producer versions write
AggEntries ==
    { [success |-> "true",   pass |-> "absent", gradingResult |-> <<>>],
      [success |-> "false",  pass |-> "absent", gradingResult |-> <<>>],
      [success |-> "absent", pass |-> "absent",
       gradingResult |-> <<[pass |-> "true"]>>] }

AggResults == UNION {[1..n -> AggEntries] : n \in 0..MaxResults}

AggDocs ==
    {Join(<<lnX, lnTests>> \o Flatten(bs), <<"\n">>) : bs \in SegBlockLists}

InitAgg ==
    /\ doc \in AggDocs
    /\ results \in AggResults
    /\ tool \in {"summary", "html"}
    /\ nFolded = 0
    /\ bySpec = EmptyMap
    /\ failedRows = <<>>
    /\ recs = <<>>
    /\ extracted = <<>>
    /\ cssClass = "none"
    /\ verdict = <<>>
    /\ PatchIdle /\ SegIdle /\ NormIdle /\ RefineIdle /\ FlowIdle
    /\ pc = "ready"

othersAgg == <<doc, patchV, normV, refineV, flowV, verdict>>

\* config = loadYAML(configPath)
LoadConfig ==
    /\ pc = "ready"
    /\ blocks' = loadBlocks(doc)
    /\ tests' = loadYAML(doc)
    /\ pc' = "fold"
    /\ UNCHANGED <<results, segments, aggV, othersAgg>>

\* one call of the callback of results.forEach of generate-summary
FoldSummary ==
    /\ pc = "fold" /\ tool = "summary"
    /\ nFolded < Len(results)
    /\ bySpec' = foldSummary(bySpec, tests, results[nFolded + 1], nFolded)
    /\ nFolded' = nFolded + 1
    /\ UNCHANGED <<results, tool, failedRows, recs, extracted, cssClass, segV,
                   othersAgg, pc>>

\* one call of the callback of resultsArray.forEach of generate-analysis-html
FoldHtml ==
    /\ pc = "fold" /\ tool = "html"
    /\ nFolded < Len(results)
    /\ bySpec' = foldHtml(bySpec, tests, results[nFolded + 1], nFolded)
    /\ failedRows' =
          IF verdictHtml(results[nFolded + 1]) THEN failedRows
          ELSE Append(failedRows,
                      [index |-> nFolded + 1, spec |-> specKeyHtml(tests, nFolded)])
    /\ nFolded' = nFolded + 1
    /\ UNCHANGED <<results, tool, recs, extracted, cssClass, segV, othersAgg, pc>>

\* the totals and the recommendations of generate-summary (part_000:120-124)
FinishSummary ==
    /\ pc = "fold" /\ tool = "summary"
    /\ nFolded = Len(results)
    /\ recs' = getRecommendations(bySpec, totalPassOf(bySpec), totalFailOf(bySpec),
                                  totalPassOf(bySpec) + totalFailOf(bySpec))
    /\ pc' = "done"
    /\ UNCHANGED <<results, tool, nFolded, bySpec, failedRows, extracted, cssClass,
                   segV, othersAgg>>

\* the totals and the rate class of generate-analysis-html
FinishHtml ==
    /\ pc = "fold" /\ tool = "html"
    /\ nFolded = Len(results)
    /\ recs' = <<[kind |-> rateClass(passPctOf(totalPassOf(bySpec),
                              totalPassOf(bySpec) + totalFailOf(bySpec))),
                  specs |-> {}]>>
    /\ cssClass' = rateClass(passPctOf(totalPassOf(bySpec),
                              totalPassOf(bySpec) + totalFailOf(bySpec)))
    /\ pc' = "done"
    /\ UNCHANGED <<results, tool, nFolded, bySpec, failedRows, extracted, segV, othersAgg>>

NextAgg == LoadConfig \/ FoldSummary \/ FoldHtml \/ FinishSummary \/ FinishHtml

SpecAgg == InitAgg /\ [][NextAgg]_vars

----------------------------------------------------------------------------
(* Properties of the correlator and the aggregator, checked under SpecAgg  *)

\* the definition record the claim pairs with the result at position i
\* (counted from 1): T[i], or the synthetic record
PairedWith(i) ==
    IF i <= Len(tests)
    THEN [groupKey |-> tests[i].spec_requirements,
          requirementText |-> tests[i].requirement]
    ELSE [groupKey |-> txUnknown, requirementText |-> <<>>]

CountIn(m, k) == IF k \in DOMAIN m THEN m[k].pass + m[k].fail ELSE 0

\* C5: each step of either tool's forEach counts the result at position i in
\* the group of T[i] when i is within T and in the group "unknown" otherwise
\* (generate-summary also records T[i]'s requirement text with the case), and
\* changes neither the result collection nor the definition sequence.
C5_Correlator ==
    [][(pc = "fold" /\ nFolded' = nFolded + 1) =>
          LET e == PairedWith(nFolded + 1)
          IN  /\ CountIn(bySpec', e.groupKey) = CountIn(bySpec, e.groupKey) + 1
              /\ tool = "summary" =>
                    LET cs == bySpec'[e.groupKey].cases
                    IN  /\ cs[Len(cs)].index = nFolded + 1
                        /\ cs[Len(cs)].requirement = e.requirementText
              /\ results' = results
              /\ tests' = tests]_vars

\* C6 (aggregator invariant): after folding any prefix of the results, every
\* group of generate-summary has passCount + failCount = number of its cases,
\* and the counts of all groups sum to the number of results folded so far.
C6_Aggregator ==
    (pc \in {"fold", "done"} /\ tool = "summary") =>
        /\ \A k \in DOMAIN bySpec :
              bySpec[k].pass + bySpec[k].fail = Len(bySpec[k].cases)
        /\ totalPassOf(bySpec) + totalFailOf(bySpec) = nFolded
        /\ pc = "done" => nFolded = Len(results)

kTone == <<"t", "o", "n", "e">>

\* the example of the specification: group tone with one pass and one fail
C6_Witness ==
    /\ pc = "done" /\ tool = "summary"
    /\ Len(results) = 2
    /\ DOMAIN bySpec = {kTone}
    /\ bySpec[kTone].pass = 1 /\ bySpec[kTone].fail = 1
    /\ Len(bySpec[kTone].cases) = 2

----------------------------------------------------------------------------
(* getRecommendations as a function of the groups                          *)

MaxCount == 5

\* the cases of a group with p passes and f fails
CasesOf(p, f) ==
    [k \in 1..(p + f) |-> [index |-> k, success |-> k <= p, requirement |-> <<>>]]

GroupStats ==
    {[pass |-> p, fail |-> f, cases |-> CasesOf(p, f)] :
        p \in 0..MaxCount, f \in 0..MaxCount} \
    {[pass |-> 0, fail |-> 0, cases |-> <<>>]}

\* the groups after the forEach: none, one or two groups, each with a case
RecMaps ==
    {EmptyMap} \cup {(kTone :> g) : g \in GroupStats}
               \cup {(kTone :> gh[1]) @@ (txUnknown :> gh[2]) :
                        gh \in GroupStats \X GroupStats}

InitRec ==
    /\ doc = <<>>
    /\ bySpec \in RecMaps
    /\ tool = "summary"
    /\ nFolded = totalPassOf(bySpec) + totalFailOf(bySpec)
    /\ failedRows = <<>>
    /\ recs = <<>>
    /\ extracted = <<>>
    /\ cssClass = "none"
    /\ PatchIdle /\ SegIdle /\ VerdictIdle /\ NormIdle /\ RefineIdle /\ FlowIdle
    /\ pc = "fold"

\* const recommendations = getRecommendations(bySpec, totalPass, totalFail, total)
GetRecommendations ==
    /\ pc = "fold"
    /\ recs' = getRecommendations(bySpec, totalPassOf(bySpec), totalFailOf(bySpec),
                                  totalPassOf(bySpec) + totalFailOf(bySpec))
    /\ pc' = "done"
    /\ UNCHANGED <<doc, patchV, segV, verdictV, normV, refineV, flowV,
                   tool, nFolded, bySpec, failedRows, extracted, cssClass>>

NextRec == GetRecommendations

SpecRec == InitRec /\ [][NextRec]_vars

RateKinds == {"low", "moderate", "good"}

\* C10: for a non-empty result collection exactly one overall-rate
\* recommendation is emitted: low iff rate < 40%, moderate iff
\* 40% <= rate < 70%, good baseline iff rate >= 70%, on the exact rate.
C10_Recommendation ==
    LET P == totalPassOf(bySpec)
        T == totalPassOf(bySpec) + totalFailOf(bySpec)
        K == {j \in 1..Len(recs) : recs[j].kind \in RateKinds}
    IN  (pc = "done" /\ T > 0) =>
            /\ Cardinality(K) = 1
            /\ \A j \in K :
                  /\ recs[j].kind = "low" <=> 100 * P < 40 * T
                  /\ recs[j].kind = "moderate" <=> (40 * T <= 100 * P /\ 100 * P < 70 * T)
                  /\ recs[j].kind = "good" <=> 70 * T <= 100 * P

\* a rate of exactly 40% has been given the moderate recommendation
C10_Witness ==
    /\ pc = "done"
    /\ totalPassOf(bySpec) = 2 /\ totalFailOf(bySpec) = 3
    /\ recs[1].kind = "moderate"

----------------------------------------------------------------------------
(* extract-failures.js: one failure record per failing result entry        *)

SliceInput  == 500
SliceOutput == 800
SliceReason == 300

\* str.slice(0, n)
Slice(str, n) == SubSeq(str, 1, IF Len(str) < n THEN Len(str) ELSE n)

\* a value that is a non-empty string
Truthy(x) == x # Undefined /\ Len(x) > 0

\* x || y
OrElse(x, y) == IF Truthy(x) THEN x ELSE y

\* the one-character string that stands for a missing assertion
txDash == <<"EM DASH">>

\* r.gradingResult && r.gradingResult.componentResults, then
\* componentResults.find(c => c.pass === false): the index of the first
\* failed sub-assertion, or 0
FirstFailed(r) ==
    IF Len(r.gradingResult) = 0 \/ Len(r.gradingResult[1].componentResults) = 0
    THEN 0
    ELSE LET cs == r.gradingResult[1].componentResults[1]
             F  == {k \in 1..Len(cs) : cs[k].pass = "false"}
         IN  IF F = {} THEN 0 ELSE CHOOSE k \in F : \A h \in F : k <= h

\* failed.assertion && failed.assertion.value
AssertionValue(c) == IF Len(c.assertion) = 0 THEN Undefined ELSE c.assertion[1].value

\* extractRecord without the statement of line 47
extractRecord_noOverride(r, i) ==
    LET k  == FirstFailed(r)
        c  == r.gradingResult[1].componentResults[1][k]
        fa == IF k = 0 THEN Undefined ELSE AssertionValue(c)
        rs == IF k = 0 THEN <<>> ELSE OrElse(c.reason, <<>>)
    IN  [testIndex |-> i + 1,
         input |-> Slice(OrElse(r.input, <<>>), SliceInput),
         output |-> Slice(OrElse(r.output, <<>>), SliceOutput),
         failingAssertion |-> OrElse(fa, OrElse(rs, txDash)),
         reason |-> Slice(rs, SliceReason)]

\* the record pushed for a failing entry r at index i (lines 38-58)
extractRecord(r, i) ==
    LET k   == FirstFailed(r)
        c   == r.gradingResult[1].componentResults[1][k]
        fa  == IF k = 0 THEN Undefined ELSE AssertionValue(c)
        rs0 == IF k = 0 THEN <<>> ELSE OrElse(c.reason, <<>>)
        rs  == IF ~Truthy(fa) /\ Len(r.gradingResult) = 1
               THEN OrElse(r.gradingResult[1].reason, <<>>)
               ELSE rs0
    IN  [testIndex |-> i + 1,
         input |-> Slice(OrElse(r.input, <<>>), SliceInput),
         output |-> Slice(OrElse(r.output, <<>>), SliceOutput),
         failingAssertion |-> OrElse(fa, OrElse(rs, txDash)),
         reason |-> Slice(rs, SliceReason)]

\* foldExtract numbering the records by their place among the failures
foldExtract_dense(out, r, i) ==
    IF verdictExtract(r) THEN out ELSE Append(out, extractRecord(r, Len(out)))

\* the callback of resultsArray.forEach (lines 34-59)
foldExtract(out, r, i) ==
    IF verdictExtract(r) THEN out ELSE Append(out, extractRecord(r, i))

MaxComponents == 2

\* a text of n characters
LongText(c, n) == [k \in 1..n |-> c]

txR1   == <<"r", "1">>
txR2   == <<"r", "2">>
txTop  == <<"t", "o", "p">>
txLong == LongText("r", SliceReason + 1)
txLongTop == LongText("t", SliceReason + 1)

\* sub-assertions: with a value and a reason, without an assertion, with an
\* empty value, without a reason
ComponentPool ==
    {[pass |-> p, assertion |-> ar[1], reason |-> ar[2]] :
        p \in {"true", "false"},
        ar \in { <<<<[value |-> txA]>>, txR1>>,
                 <<<<[value |-> txB]>>, txR2>>,
                 <<<<>>, txR1>>,
                 <<<<[value |-> <<>>]>>, txLong>>,
                 <<<<[value |-> txA]>>, Undefined>> }}

ComponentLists == UNION {[1..n -> ComponentPool] : n \in 0..MaxComponents}

GradingResults ==
    {<<>>} \cup
    {<<[pass |-> p, reason |-> rs, componentResults |-> cr]>> :
        p \in {"false", "absent"},
        rs \in {Undefined, txTop, txLongTop},
        cr \in {<<>>} \cup {<<cs>> : cs \in ComponentLists}}

ExtractEntries ==
    {[success |-> s, pass |-> "absent", gradingResult |-> g,
      input |-> Undefined, output |-> Undefined] :
        s \in Flag, g \in GradingResults}

\* entries with an input and an output longer than the snippets
SnippetEntries ==
    {[success |-> s, pass |-> "absent", gradingResult |-> <<>>,
      input |-> LongText("i", SliceInput + 1),
      output |-> LongText("o", SliceOutput + 1)] : s \in {"true", "false"}}

ExtractResults ==
    {<<r>> : r \in ExtractEntries}
        \cup UNION {[1..n -> SnippetEntries] : n \in 0..MaxResults}

InitExtract ==
    /\ doc = <<>>
    /\ results \in ExtractResults
    /\ tool = "extract"
    /\ nFolded = 0
    /\ bySpec = EmptyMap
    /\ failedRows = <<>>
    /\ recs = <<>>
    /\ extracted = <<>>
    /\ cssClass = "none"
    /\ verdict = <<>>
    /\ PatchIdle /\ SegIdle /\ NormIdle /\ RefineIdle /\ FlowIdle
    /\ pc = "fold"

\* one call of the callback of resultsArray.forEach of extract-failures
FoldExtract ==
    /\ pc = "fold" /\ tool = "extract"
    /\ nFolded < Len(results)
    /\ extracted' = foldExtract(extracted, results[nFolded + 1], nFolded)
    /\ nFolded' = nFolded + 1
    /\ UNCHANGED <<results, tool, bySpec, failedRows, recs, cssClass, segV, othersAgg,
                   pc>>

\* fs.writeFileSync(outputPath, JSON.stringify(failures, null, 2), 'utf8')
WriteFailures ==
    /\ pc = "fold" /\ tool = "extract"
    /\ nFolded = Len(results)
    /\ pc' = "done"
    /\ UNCHANGED <<results, aggV, segV, othersAgg>>

NextExtract == FoldExtract \/ WriteFailures

SpecExtract == InitExtract /\ [][NextExtract]_vars

\* the record extracted for the entry at position i, if there is one
RecordsFor(i) == {j \in 1..Len(extracted) : extracted[j].testIndex = i}

\* C7 as stated: when a sub-assertion with pass = false exists, the record
\* carries the first such sub-assertion's assertion text and its reason (cut
\* to the reason bound); otherwise the top-level reason text, or the dash.
C7_Original ==
    \A i \in 1..nFolded : \A j \in RecordsFor(i) :
        LET r == results[i]
            k == FirstFailed(r)
        IN  IF k # 0
            THEN LET c == r.gradingResult[1].componentResults[1][k]
                 IN  /\ extracted[j].failingAssertion = AssertionValue(c)
                     /\ extracted[j].reason = Slice(OrElse(c.reason, <<>>), SliceReason)
            ELSE extracted[j].failingAssertion =
                    IF Len(r.gradingResult) = 1
                    THEN OrElse(r.gradingResult[1].reason, txDash)
                    ELSE txDash

\* C7 amended: when the first sub-assertion with pass = false has a non-empty
\* assertion value, failingAssertion is that value and reason is that
\* sub-assertion's reason cut to 300 characters; in every other case (no
\* failed sub-assertion, or the first one has no assertion value) reason is the
\* entry's top-level reason cut to 300 characters and failingAssertion is the
\* top-level reason uncut, or the dash when there is none.
C7_FailureRecord ==
    \A i \in 1..nFolded : \A j \in RecordsFor(i) :
        LET r   == results[i]
            k   == FirstFailed(r)
            val == IF k = 0 THEN Undefined
                   ELSE AssertionValue(r.gradingResult[1].componentResults[1][k])
            top == IF Len(r.gradingResult) = 1
                   THEN OrElse(r.gradingResult[1].reason, <<>>) ELSE <<>>
        IN  IF Truthy(val)
            THEN /\ extracted[j].failingAssertion = val
                 /\ extracted[j].reason =
                       Slice(OrElse(r.gradingResult[1].componentResults[1][k].reason,
                                    <<>>), SliceReason)
            ELSE /\ extracted[j].failingAssertion = OrElse(top, txDash)
                 /\ extracted[j].reason = Slice(top, SliceReason)

\* a failing entry whose first failed sub-assertion has a reason but no
\* assertion value: the record carries the top-level reason in both fields
C7_Witness ==
    /\ Len(results) = 1 /\ nFolded = 1 /\ Len(extracted) = 1
    /\ FirstFailed(results[1]) = 1
    /\ AssertionValue(results[1].gradingResult[1].componentResults[1][1]) = Undefined
    /\ results[1].gradingResult[1].componentResults[1][1].reason = txR1
    /\ results[1].gradingResult[1].reason = txTop
    /\ extracted[1].failingAssertion = txTop
    /\ extracted[1].reason = txTop

----------------------------------------------------------------------------
(* refine-assertions.js: main                                              *)

extYaml    == <<".", "y", "a", "m", "l">>
sufRefined == <<"_", "r", "e", "f", "i", "n", "e", "d", ".", "y", "a", "m", "l">>

\* /\.yaml$/ matches str
EndsWithYaml(str) ==
    /\ Len(str) >= Len(extYaml)
    /\ SubSeq(str, Len(str) - Len(extYaml) + 1, Len(str)) = extYaml

\* yamlPath.replace(/\.yaml$/, '_refined.yaml')
derivedPath(yamlPath) ==
    IF EndsWithYaml(yamlPath)
    THEN SubSeq(yamlPath, 1, Len(yamlPath) - Len(extYaml)) \o sufRefined
    ELSE yamlPath

\* args[k] of the source (0-based), undefined past the end
Arg(k) == IF k + 1 <= Len(args) THEN args[k + 1] ELSE Undefined

\* args[2] || yamlPath.replace(/\.yaml$/, '_refined.yaml')
outputPathOf(a2, yamlPath) == OrElse(a2, derivedPath(yamlPath))

pFail    == <<"f", ".", "j", "s", "o", "n">>
pYaml    == <<"t", ".", "y", "a", "m", "l">>
pYml     == <<"t", ".", "y", "m", "l">>
pOut     == <<"o", ".", "y", "a", "m", "l">>
debugPath ==
    <<"p", "r", "o", "m", "p", "t", "f", "o", "o", "-", "o", "u", "t", "p", "u", "t",
      "/", "r", "e", "f", "i", "n", "e", "_", "l", "l", "m", "_", "r", "a", "w", ".",
      "t", "x", "t">>

YamlPaths == {pYaml, pYml}

\* the command lines: too few arguments, output omitted, output given (a new
\* name, the name of a test-definition file, or the empty string)
ArgLists ==
    {<<>>, <<pFail>>}
        \cup {<<pFail, y>> : y \in YamlPaths}
        \cup {<<pFail, y, o>> : y \in YamlPaths, o \in {pOut, <<>>} \cup YamlPaths}

Paths == {pFail, pOut, debugPath} \cup YamlPaths \cup {derivedPath(y) : y \in YamlPaths}

Missing == <<"<missing>">>

\* contents of the failures file: no failures, one failure, not JSON
jsonEmpty == <<"[", "]">>
jsonOne   == <<"[", "{", "1", ":", "a", "}", "]">>
notJson   == <<"{">>

\* loadJSON(failuresPath): the parsed value, or a SyntaxError
loadJSON(content) ==
    IF content = jsonEmpty THEN [threw |-> FALSE, value |-> <<>>]
    ELSE IF content = jsonOne
         THEN [threw |-> FALSE,
               value |-> <<[testIndex |-> 1, failingAssertion |-> txA]>>]
         ELSE [threw |-> TRUE, value |-> <<>>]

\* the documents refine-assertions is run on
docPatchable == Join(<<lnX, lnTests, lnVars, lnValQA>>, <<"\n">>)
docNoTests   == Join(<<lnTests, lnVars, lnValQA>>, <<"\n">>)

\* the raw text of the service's message
rawContent == <<"r", "a", "w">>

\* what the service can answer: the transport fails, a non-success status, no
\* message content, a JSON object with refinements, a JSON array, free text
\* holding an array, text from which no array can be parsed
ResponseKinds ==
    {"rejected", "notOk", "noContent", "object", "array", "embedded", "garbled"}

\* Parsed with a non-success answer taken for a list
Parsed_notOk(kind) == kind \in {"object", "array", "embedded", "notOk"}

\* the answers from which callOpenAI returns a list (lines 122-134)
Parsed(kind) == kind \in {"object", "array", "embedded"}

\* SavesRaw with the raw text also saved for a non-success answer
SavesRaw_notOk(kind) == kind \in {"garbled", "notOk"}

\* the answers for which callOpenAI reaches the catch of lines 135-141, where
\* it tries to save the raw text
SavesRaw(kind) == kind = "garbled"

\* the refinements a parsed answer holds
ServiceRefinements ==
    {<<>>, <<[testIndex |-> 1, refinedAssertion |-> txR]>>,
           <<[testIndex |-> 2, refinedAssertion |-> txR]>>}

InitRefine ==
    /\ args \in ArgLists
    /\ apiKey \in {<<>>, <<"k">>}
    /\ doc \in {docPatchable, docNoTests}
    /\ \E fc \in {Missing, jsonEmpty, jsonOne, notJson}, yc \in {Missing, doc} :
          files = [p \in Paths |->
                     IF p = Arg(1) THEN yc
                     ELSE IF p = Arg(0) THEN fc
                     ELSE Missing]
    /\ outputPath = <<>>
    /\ requests = 0
    /\ response = "none"
    /\ exitCode = "none"
    /\ failures = <<>> /\ refinements = <<>> /\ written = NoFile
    /\ SegIdle /\ VerdictIdle /\ NormIdle /\ AggIdle /\ FlowIdle
    /\ pc = "args"

othersRefine == <<doc, written, segV, verdictV, normV, aggV, flowV>>

\* lines 184-191: the usage check and the three paths
ParseArgs ==
    /\ pc = "args"
    /\ IF Len(args) < 2
       THEN /\ exitCode' = "1" /\ pc' = "exited"
            /\ UNCHANGED outputPath
       ELSE /\ outputPath' = outputPathOf(Arg(2), Arg(1))
            /\ pc' = "env"
            /\ UNCHANGED exitCode
    /\ UNCHANGED <<args, apiKey, files, requests, response, failures, refinements,
                   othersRefine>>

\* lines 193-206: the key and the two input files must be there
CheckInputs ==
    /\ pc = "env"
    /\ IF ~Truthy(apiKey) \/ files[Arg(0)] = Missing \/ files[Arg(1)] = Missing
       THEN exitCode' = "1" /\ pc' = "exited"
       ELSE pc' = "load" /\ UNCHANGED exitCode
    /\ UNCHANGED <<args, apiKey, files, outputPath, requests, response, failures,
                   refinements, othersRefine>>

\* lines 208-212: read the failures; nothing to do when there are none
LoadFailures ==
    /\ pc = "load"
    /\ LET r == loadJSON(files[Arg(0)])
       IN  IF r.threw
           THEN /\ exitCode' = "1" /\ pc' = "exited" /\ UNCHANGED failures
           ELSE IF Len(r.value) = 0
           THEN /\ exitCode' = "0" /\ pc' = "exited" /\ UNCHANGED failures
           ELSE /\ failures' = r.value /\ pc' = "call" /\ UNCHANGED exitCode
    /\ UNCHANGED <<args, apiKey, files, outputPath, requests, response, refinements,
                   othersRefine>>

\* line 215 and callOpenAI (lines 59-142): one request; a list comes back, or
\* the call throws, after trying to save the raw text when nothing parsed
CallOpenAI ==
    /\ pc = "call"
    /\ requests' = requests + 1
    /\ \E kind \in ResponseKinds, refs \in ServiceRefinements, saved \in BOOLEAN :
          /\ response' = kind
          /\ IF Parsed(kind)
             THEN /\ refinements' = refs
                  /\ pc' = "patch"
                  /\ UNCHANGED <<files, exitCode>>
             ELSE /\ files' = IF SavesRaw(kind) /\ saved
                              THEN [files EXCEPT ![debugPath] = rawContent]
                              ELSE files
                  /\ exitCode' = "1"
                  /\ pc' = "exited"
                  /\ UNCHANGED refinements
    /\ UNCHANGED <<args, apiKey, outputPath, failures, othersRefine>>

\* line 218 and patchYaml's read and write (lines 145, 180)
PatchFile ==
    /\ pc = "patch"
    /\ LET r == patchYaml(files[Arg(1)], failures, refinements)
       IN  IF r.threw
           THEN exitCode' = "1" /\ UNCHANGED files
           ELSE /\ files' = [files EXCEPT ![outputPath] = r.newYaml]
                /\ exitCode' = "0"
    /\ pc' = "exited"
    /\ UNCHANGED <<args, apiKey, outputPath, requests, response, failures,
                   refinements, othersRefine>>

NextRefine == ParseArgs \/ CheckInputs \/ LoadFailures \/ CallOpenAI \/ PatchFile

SpecRefine == InitRefine /\ [][NextRefine]_vars

\* C9 as stated: after any run of refine-assertions the test-definition file
\* given as input holds what it held before the run, and the patched document
\* was written to a path different from the input path.
C9_Original ==
    (pc = "exited" /\ Len(args) >= 2 /\ files[Arg(1)] # Missing) =>
        /\ files[Arg(1)] = doc
        /\ (Parsed(response) /\ exitCode = "0") => outputPath # Arg(1)

\* the files of the run other than its two inputs
OtherPaths == Paths \ {Arg(0), Arg(1)}

\* no file was created and the test-definition file holds what it held
NothingWritten ==
    /\ \A p \in OtherPaths : files[p] = Missing
    /\ files[Arg(1)] \in {Missing, doc}

\* the run reached patchYaml's writeFileSync: it sent its request and ended
\* with status 0
PatchWritten ==
    /\ pc = "exited" /\ exitCode = "0" /\ requests > 0

\* C11: when the service answers with a non-success status the run ends with
\* status 1 after exactly one request and no file is written; no run sends
\* more than one request; and a run that wrote the patched document had a
\* parsed answer.
C11_FatalResponse ==
    /\ response = "notOk" =>
          /\ pc = "exited" /\ exitCode = "1" /\ requests = 1
          /\ NothingWritten
    /\ requests <= 1
    /\ PatchWritten => Parsed(response)
    /\ (Len(args) >= 2 /\ ~NothingWritten) =>
          \/ PatchWritten /\ Parsed(response)
          \/ SavesRaw(response) /\ files[debugPath] = rawContent

\* a run that ended on a non-success answer
C11_Witness ==
    /\ response = "notOk" /\ pc = "exited" /\ exitCode = "1" /\ requests = 1
    /\ files[Arg(1)] = doc /\ failures # <<>>

\* C16 as stated: when the answer cannot be parsed into a list, or the status
\* is non-success, the raw response is in the debug file when the run has
\* aborted.
C16_Original ==
    (pc = "exited" /\ response \in {"notOk", "garbled"}) =>
        /\ exitCode = "1"
        /\ files[debugPath] = rawContent

\* C16 amended: every answer from which no list is returned aborts the run
\* with status 1; the debug file is written only when the answer had a message
\* content that could not be parsed into a list, it then holds that raw
\* content, and the write is attempted, not guaranteed; for a rejected request,
\* a non-success status or an answer without content nothing is saved.
C16_DebugArtifact ==
    /\ (response # "none" /\ ~Parsed(response)) =>
          /\ pc = "exited" /\ exitCode = "1"
          /\ files[debugPath] \in {Missing, rawContent}
    /\ response \in {"rejected", "notOk", "noContent"} => files[debugPath] = Missing
    /\ (Len(args) >= 2 /\ files[debugPath] # Missing) =>
          /\ response = "garbled" /\ files[debugPath] = rawContent

\* an aborted run whose unparsable answer was saved
C16_Witness ==
    /\ response = "garbled" /\ pc = "exited" /\ exitCode = "1"
    /\ files[debugPath] = rawContent

\* the positions of the folded entries that have a fail verdict
FailedPositions == {i \in 1..nFolded : ~verdictExtract(results[i])}

\* C13: after any number of entries has been folded, there is exactly one
\* record for each fail-verdict entry and none for a pass-verdict entry, each
\* record's testIndex is the 1-based position of its entry, and the testIndex
\* values are strictly increasing along the failures array.
C13_OneRecordPerFailure ==
    tool = "extract" =>
        /\ Len(extracted) = Cardinality(FailedPositions)
        /\ \A j \in 1..Len(extracted) : extracted[j].testIndex \in FailedPositions
        /\ \A i \in FailedPositions : Cardinality(RecordsFor(i)) = 1
        /\ \A j \in 1..Len(extracted) : \A h \in 1..Len(extracted) :
              j < h => extracted[j].testIndex < extracted[h].testIndex

\* a passing entry followed by two failing ones: records 2 and 3
C13_Witness ==
    /\ tool = "extract" /\ pc = "done"
    /\ Len(results) = 3
    /\ FailedPositions = {2, 3}
    /\ Len(extracted) = 2
    /\ extracted[1].testIndex = 2 /\ extracted[2].testIndex = 3

----------------------------------------------------------------------------
(* run-eval-with-summary.sh and refine-and-retest.sh                       *)

MaxRuns == 3

\* [[ "$f" != *"_refined.yaml" ]] is false: the name ends in _refined.yaml
IsRefinedName(f) ==
    /\ Len(f) >= Len(sufRefined)
    /\ SubSeq(f, Len(f) - Len(sufRefined) + 1, Len(f)) = sufRefined

\* "${TEST_FILE%.yaml}_refined.yaml"
shRefined(f) ==
    (IF EndsWithYaml(f) THEN SubSeq(f, 1, Len(f) - Len(extYaml)) ELSE f)
        \o sufRefined

\* ls -t ... | head -1 over a set of files: the newest one, or nothing
Newest(fileSet) ==
    IF fileSet = {} THEN <<>>
    ELSE (CHOOSE f \in fileSet : \A g \in fileSet : g.mtime <= f.mtime).name

\* the file of the directory with the given name
MtimeOf(name) == (CHOOSE f \in dir : f.name = name).mtime

\* the document a file holds now: its name and its modification time
DocAt(name) == [name |-> name, mtime |-> MtimeOf(name)]

NoDoc      == [name |-> <<>>, mtime |-> 0]
NoResults  == [of |-> NoDoc, failing |-> FALSE]
NoPatch    == [target |-> NoDoc, from |-> NoDoc]

\* what promptfoo eval can do: all tests pass (status 0), some test fails
\* (results written, non-zero status), the eval itself fails (nothing written)
EvalOutcomes == {"pass", "fail", "error"}

\* the directories the scripts can start from
InitialDirs ==
    { {},
      {[name |-> pYaml, mtime |-> 1]},
      {[name |-> pYaml, mtime |-> 1], [name |-> pOut, mtime |-> 2]},
      {[name |-> shRefined(pYaml), mtime |-> 1]},
      {[name |-> pYaml, mtime |-> 1], [name |-> shRefined(pYaml), mtime |-> 2]},
      {[name |-> pYaml, mtime |-> 2], [name |-> shRefined(pYaml), mtime |-> 1]} }

InitFlow ==
    /\ doc = <<>>
    /\ dir \in InitialDirs
    /\ clock = 2
    /\ resultsFrom = NoResults
    /\ failuresFrom = NoResults
    /\ script = "none"
    /\ testFile = <<>>
    /\ made = {}
    /\ patchLog = NoPatch
    /\ runs = 0
    /\ shStatus = "none"
    /\ PatchIdle /\ SegIdle /\ VerdictIdle /\ NormIdle /\ AggIdle /\ RefineIdle
    /\ pc = "idle"

othersFlow == <<doc, patchV, segV, verdictV, normV, aggV, refineV>>

\* the script ends here with the given status
Exit(st) == pc' = "exited" /\ shStatus' = st

\* run-eval-with-summary.sh lines 5-15: the newest *.yaml, or exit 1
StartRunEval ==
    /\ pc \in {"idle", "exited"} /\ runs < MaxRuns
    /\ runs' = runs + 1
    /\ script' = "run-eval"
    /\ made' = {}
    /\ testFile' = Newest(dir)
    /\ IF testFile' = <<>> THEN Exit("1")
       ELSE pc' = "eval" /\ shStatus' = "none"
    /\ UNCHANGED <<dir, clock, resultsFrom, failuresFrom, patchLog, othersFlow>>

\* line 18 under set -e: a non-zero status of promptfoo eval ends the script
RunEval ==
    /\ script = "run-eval" /\ pc = "eval"
    /\ \E out \in EvalOutcomes :
          /\ IF out = "error" THEN UNCHANGED <<resultsFrom, made>>
             ELSE /\ resultsFrom' = [of |-> DocAt(testFile), failing |-> out = "fail"]
                  /\ made' = made \cup {"results"}
          /\ IF out = "pass" THEN pc' = "summary" /\ UNCHANGED shStatus
             ELSE Exit(IF out = "fail" THEN "100" ELSE "1")
    /\ UNCHANGED <<dir, clock, failuresFrom, script, testFile, patchLog, runs,
                   othersFlow>>

\* line 21: node scripts/generate-summary.js
RunSummary ==
    /\ script = "run-eval" /\ pc = "summary"
    /\ made' = made \cup {"summary"}
    /\ pc' = "analysis"
    /\ UNCHANGED <<dir, clock, resultsFrom, failuresFrom, script, testFile,
                   patchLog, runs, shStatus, othersFlow>>

\* line 24: node scripts/generate-analysis-html.js
RunAnalysis ==
    /\ script = "run-eval" /\ pc = "analysis"
    /\ made' = made \cup {"analysis"}
    /\ pc' = "print"
    /\ UNCHANGED <<dir, clock, resultsFrom, failuresFrom, script, testFile,
                   patchLog, runs, shStatus, othersFlow>>

\* lines 26-31: cat promptfoo-output/SUMMARY.md
RunPrint ==
    /\ script = "run-eval" /\ pc = "print"
    /\ made' = made \cup {"printed"}
    /\ Exit("0")
    /\ UNCHANGED <<dir, clock, resultsFrom, failuresFrom, script, testFile,
                   patchLog, runs, othersFlow>>

\* refine-and-retest.sh lines 6-27: the newest *.yaml that is not a
\* *_refined.yaml; under set -e the script ends at line 12 when every file is
\* a *_refined.yaml, since the while loop then returns the status of its last
\* test; it ends at line 21 without files and at line 26 without results
StartRefine ==
    /\ pc \in {"idle", "exited"} /\ runs < MaxRuns
    /\ runs' = runs + 1
    /\ script' = "refine"
    /\ made' = {}
    /\ testFile' = Newest({f \in dir : ~IsRefinedName(f.name)})
    /\ IF testFile' = <<>> \/ resultsFrom = NoResults THEN Exit("1")
       ELSE pc' = "extract" /\ shStatus' = "none"
    /\ UNCHANGED <<dir, clock, resultsFrom, failuresFrom, patchLog, othersFlow>>

\* lines 29-36: extract-failures on results.json, exit 0 without failures
RefineExtract ==
    /\ script = "refine" /\ pc = "extract"
    /\ failuresFrom' = resultsFrom
    /\ IF resultsFrom.failing THEN pc' = "refine" /\ UNCHANGED shStatus
       ELSE Exit("0")
    /\ UNCHANGED <<dir, clock, resultsFrom, script, testFile, made, patchLog, runs,
                   othersFlow>>

\* lines 38-40: refine-assertions patches TEST_FILE into REFINED_YAML, or
\* fails and ends the script
RefineAssertions ==
    /\ script = "refine" /\ pc = "refine"
    /\ \E ok \in BOOLEAN :
          IF ok
          THEN /\ dir' = {f \in dir : f.name # shRefined(testFile)}
                           \cup {[name |-> shRefined(testFile), mtime |-> clock + 1]}
               /\ clock' = clock + 1
               /\ patchLog' = [target |-> DocAt(testFile), from |-> failuresFrom.of]
               /\ pc' = "reeval"
               /\ UNCHANGED shStatus
          ELSE /\ Exit("1")
               /\ UNCHANGED <<dir, clock, patchLog>>
    /\ UNCHANGED <<resultsFrom, failuresFrom, script, testFile, made, runs, othersFlow>>

\* lines 42-44: promptfoo eval on REFINED_YAML || true
RefineReEval ==
    /\ script = "refine" /\ pc = "reeval"
    /\ \E out \in EvalOutcomes :
          IF out = "error" THEN UNCHANGED <<resultsFrom, made>>
          ELSE /\ resultsFrom' = [of |-> DocAt(shRefined(testFile)),
                                  failing |-> out = "fail"]
               /\ made' = made \cup {"results"}
    /\ pc' = "report"
    /\ UNCHANGED <<dir, clock, failuresFrom, script, testFile, patchLog, runs,
                   shStatus, othersFlow>>

\* lines 45-49: generate-summary and generate-analysis-html on REFINED_YAML
RefineReport ==
    /\ script = "refine" /\ pc = "report"
    /\ made' = made \cup {"summary", "analysis"}
    /\ Exit("0")
    /\ UNCHANGED <<dir, clock, resultsFrom, failuresFrom, script, testFile,
                   patchLog, runs, othersFlow>>

NextFlow ==
    \/ StartRunEval \/ RunEval \/ RunSummary \/ RunAnalysis \/ RunPrint
    \/ StartRefine \/ RefineExtract \/ RefineAssertions \/ RefineReEval
    \/ RefineReport

SpecFlow == InitFlow /\ [][NextFlow]_vars

\* C14 as stated: a run of run-eval-with-summary.sh that found a test file
\* and has ended has run the eval, generated SUMMARY.md and analysis.html and
\* printed the summary, whatever status the eval returned.
C14_Original ==
    (script = "run-eval" /\ pc = "exited" /\ testFile # <<>>) =>
        {"summary", "analysis", "printed"} \subseteq made

\* C19 as stated: whenever refine-assertions has patched a document, the
\* failure records it was given come from results of evaluating that same
\* document.
C19_Original ==
    patchLog # NoPatch => patchLog.from = patchLog.target

----------------------------------------------------------------------------
(* The two segmentations of one document: loadYAML's and patchYaml's       *)

\* lines 147-153 of patchYaml: the blocks of the body after tests:
testBlocksOf(yaml) == SplitBlocks(BodyOf(yaml))

InitReseg ==
    /\ doc \in PatchDocs \cup SegDocs
    /\ blocks = <<>>
    /\ tests = <<>>
    /\ segments = <<>>
    /\ PatchIdle /\ VerdictIdle /\ NormIdle /\ AggIdle /\ RefineIdle /\ FlowIdle
    /\ pc = "ready"

\* patchYaml up to line 153 on the document loadYAML has read
SegmentForPatch ==
    /\ pc = "loaded"
    /\ IF HasTests(doc)
       THEN segments' = testBlocksOf(doc) /\ pc' = "segmented"
       ELSE segments' = segments /\ pc' = "threw"
    /\ UNCHANGED <<doc, blocks, tests, othersSeg>>

NextReseg == LoadYAML \/ SegmentForPatch

SpecReseg == InitReseg /\ [][NextReseg]_vars

\* C15 as stated, on the documents patchYaml accepts: for every ordinal k,
\* the block patchYaml addresses as index k-1 is the text of the k-th block of
\* loadYAML, also when there is content between tests: and the first record
\* marker.
C15_Original ==
    pc = "segmented" =>
        \A k \in 1..Len(blocks) :
            /\ k <= Len(segments)
            /\ segments[k] = blocks[k]

----------------------------------------------------------------------------
(* The overall rate as generate-summary and generate-analysis-html bucket it *)

MaxTally == 16

InitRate ==
    /\ doc = <<>>
    /\ \E p \in 0..MaxTally, f \in 0..MaxTally :
          bySpec = IF p + f = 0 THEN EmptyMap
                   ELSE (kTone :> [pass |-> p, fail |-> f, cases |-> CasesOf(p, f)])
    /\ tool = "summary, html"
    /\ nFolded = totalPassOf(bySpec) + totalFailOf(bySpec)
    /\ failedRows = <<>>
    /\ recs = <<>>
    /\ extracted = <<>>
    /\ cssClass = "none"
    /\ PatchIdle /\ SegIdle /\ VerdictIdle /\ NormIdle /\ RefineIdle /\ FlowIdle
    /\ pc = "fold"

\* generate-analysis-html lines 167-171 and 225 on the same groups
RenderClass ==
    /\ cssClass = "none"
    /\ cssClass' = rateClass(passPctOf(totalPassOf(bySpec),
                              totalPassOf(bySpec) + totalFailOf(bySpec)))
    /\ UNCHANGED <<doc, patchV, segV, verdictV, normV, refineV, flowV,
                   tool, nFolded, bySpec, failedRows, recs, extracted, pc>>

NextRate == GetRecommendations \/ RenderClass

SpecRate == InitRate /\ [][NextRate]_vars

\* C17 as stated, for a non-empty result collection: the class the HTML view
\* shows for the overall rate is the bucket of the recommendation policy: bad
\* with low, warn with moderate, ok with good.
C17_Original ==
    (pc = "done" /\ cssClass # "none" /\ nFolded > 0) =>
        /\ cssClass = "bad"  <=> recs[1].kind = "low"
        /\ cssClass = "warn" <=> recs[1].kind = "moderate"
        /\ cssClass = "ok"   <=> recs[1].kind = "good"

----------------------------------------------------------------------------
(* The result collection each tool selects from the results file           *)

MaxEntries == 2

\* data.results of a results file: an array, or an object whose fields
\* results and outputs are each absent (length 0) or an array (length 1)
EntryLists == UNION {[1..n -> AggEntries] : n \in 0..MaxEntries}

ResultFiles ==
    {[isArray |-> TRUE, flat |-> es, results |-> <<>>, outputs |-> <<>>] :
        es \in EntryLists}
    \cup {[isArray |-> FALSE, flat |-> <<>>, results |-> rs, outputs |-> os] :
            rs \in {<<>>} \cup {<<es>> : es \in EntryLists},
            os \in {<<>>} \cup {<<es>> : es \in EntryLists}}

\* generate-summary (part_000:102-105): rawResults.outputs || rawResults.results
selectSummary(raw) ==
    IF raw.isArray THEN raw.flat
    ELSE IF Len(raw.outputs) = 1 THEN raw.outputs[1]
    ELSE IF Len(raw.results) = 1 THEN raw.results[1]
    ELSE <<>>

\* generate-analysis-html (extract-failures.js:129-130): raw.results || raw.outputs
selectHtml(raw) ==
    IF raw.isArray THEN raw.flat
    ELSE IF Len(raw.results) = 1 THEN raw.results[1]
    ELSE IF Len(raw.outputs) = 1 THEN raw.outputs[1]
    ELSE <<>>

\* extract-failures (extract-failures.js:30-31): raw.results || raw.outputs
selectExtract(raw) ==
    IF raw.isArray THEN raw.flat
    ELSE IF Len(raw.results) = 1 THEN raw.results[1]
    ELSE IF Len(raw.outputs) = 1 THEN raw.outputs[1]
    ELSE <<>>

\* the ordinals of a collection that each tool gives a fail verdict
failsSummary(rs) == {i \in 1..Len(rs) : ~verdictSummary(rs[i])}
failsHtml(rs)    == {i \in 1..Len(rs) : ~verdictHtml(rs[i])}
failsExtract(rs) == {i \in 1..Len(rs) : ~verdictExtract(rs[i])}

NoOrdinals == [summary |-> <<>>, html |-> <<>>, extract |-> <<>>]

InitSelect ==
    /\ doc = <<>>
    /\ results \in ResultFiles
    /\ verdict = NoOrdinals
    /\ PatchIdle /\ SegIdle /\ NormIdle /\ AggIdle /\ RefineIdle /\ FlowIdle
    /\ pc = "ready"

\* generate-summary: the ordinals counted as fail (part_000:102-118)
CountSummary ==
    /\ verdict.summary = <<>>
    /\ verdict' = [verdict EXCEPT !.summary = <<failsSummary(selectSummary(results))>>]
    /\ UNCHANGED <<results, othersVerdict>>

\* generate-analysis-html: the ordinals counted as fail (lines 129-141)
CountHtml ==
    /\ verdict.html = <<>>
    /\ verdict' = [verdict EXCEPT !.html = <<failsHtml(selectHtml(results))>>]
    /\ UNCHANGED <<results, othersVerdict>>

\* extract-failures: the ordinals written as failure records (lines 29-59)
ExtractOrdinals ==
    /\ verdict.extract = <<>>
    /\ verdict' = [verdict EXCEPT !.extract = <<failsExtract(selectExtract(results))>>]
    /\ UNCHANGED <<results, othersVerdict>>

NextSelect == CountSummary \/ CountHtml \/ ExtractOrdinals

SpecSelect == InitSelect /\ [][NextSelect]_vars

\* C18 as stated: for every results file, the ordinals extract-failures writes
\* as failure records are the ordinals generate-summary and
\* generate-analysis-html count as fail.
C18_Original ==
    \A t \in Tools : \A u \in Tools :
        (verdict[t] # <<>> /\ verdict[u] # <<>>) => verdict[t] = verdict[u]

----------------------------------------------------------------------------
(* A document is patched and the refined document is loaded again          *)

\* a refined text that holds a line break followed by a record marker
txMarker == <<"\n", "-", " ", "v", "a", "r", "s", ":">>

\* the service's answer: one refinement for one record
MarkerRefinements ==
    {<<[testIndex |-> k, refinedAssertion |-> x]>> :
        k \in 1..MaxBlocks, x \in {txR, txMarker}}

InitRetest ==
    /\ doc \in PatchDocs
    /\ failures = <<>>
    /\ refinements = <<>>
    /\ written = NoFile
    /\ blocks = <<>>
    /\ tests = <<>>
    /\ segments = <<>>
    /\ VerdictIdle /\ NormIdle /\ AggIdle /\ RefineIdle /\ FlowIdle
    /\ pc = "ready"

othersRetest == <<verdictV, normV, aggV, refineV, flowV>>

\* the first eval's reports read the original document (loadYAML)
LoadOriginal ==
    /\ pc = "ready"
    /\ blocks' = loadBlocks(doc)
    /\ tests' = loadYAML(doc)
    /\ pc' = "loaded"
    /\ UNCHANGED <<doc, patchV, segments, othersRetest>>

\* refine-and-retest.sh line 40: patchYaml writes REFINED_YAML
PatchLoaded ==
    /\ pc = "loaded"
    /\ \E fs \in FailureSeqs, refs \in MarkerRefinements :
          LET r == patchYaml(doc, fs, refs)
          IN  /\ failures' = fs
              /\ refinements' = refs
              /\ written' = r.newYaml
              /\ pc' = IF r.threw THEN "threw" ELSE "written"
    /\ UNCHANGED <<doc, segV, othersRetest>>

\* refine-and-retest.sh lines 45-46: the reports read REFINED_YAML (loadYAML)
LoadRefined ==
    /\ pc = "written"
    /\ tests' = loadYAML(written)
    /\ segments' = loadBlocks(written)
    /\ pc' = "reloaded"
    /\ UNCHANGED <<doc, patchV, blocks, othersRetest>>

NextRetest == LoadOriginal \/ PatchLoaded \/ LoadRefined

SpecRetest == InitRetest /\ [][NextRetest]_vars

\* C20 as stated: for every refined text and every document, the refined
\* document has as many record blocks as the original, so every record keeps
\* its ordinal.
C20_Original ==
    pc = "reloaded" => Len(segments) = Len(blocks)

----------------------------------------------------------------------------
(* A refined document is patched again: the written value is read back     *)

\* the characters of a refined text: a letter, a blank, the two quotes and
\* a line break
RefinedAlphabet == Alphabet \cup {"\n"}

RefinedTexts == UNION {[1..n -> RefinedAlphabet] : n \in 0..MaxStr}

\* the index of the line at which the loop of lines 166-174 reaches line
\* 172, or 0 when it runs to the end without a match
HitLine(block, failingAssertion) ==
    LET lines == SplitLines(block)
        hits  == {i \in 1..Len(lines) : LineMatches(lines[i], failingAssertion)}
    IN  IF hits = {} THEN 0 ELSE CHOOSE h \in hits : \A g \in hits : h <= g

\* the line the callback of failures.forEach replaces for the failure f,
\* or 0 when it returns early or finds no line (lines 157-176)
PatchedLine(testBlocks, f, refs) ==
    IF Falsy(RefinedFor(refs, f.testIndex)) THEN 0
    ELSE IF f.testIndex - 1 < 0 \/ f.testIndex - 1 >= Len(testBlocks) THEN 0
    ELSE HitLine(testBlocks[f.testIndex], f.failingAssertion)

\* documents with a one-line header
RoundTripDocs ==
    {Join(<<lnX, lnTests>> \o Flatten(bs), <<"\n">>) : bs \in BlockLists}

InitRoundTrip ==
    /\ doc \in RoundTripDocs
    /\ failures \in {<<[testIndex |-> k, failingAssertion |-> txA]>> : k \in 1..MaxBlocks}
    /\ refinements = <<>>
    /\ written = NoFile
    /\ blocks = <<>>
    /\ tests = <<>>
    /\ segments = <<>>
    /\ valueRest = <<>>
    /\ assertion \in RefinedTexts
    /\ matched = "none"
    /\ VerdictIdle /\ AggIdle /\ RefineIdle /\ FlowIdle
    /\ pc = "ready"

othersRoundTrip == <<tests, segments, verdictV, aggV, refineV, flowV>>

\* patchYaml with the refined text `assertion` for the failing record:
\* valueRest is the value escapeForYaml builds at line 172 when the loop
\* gets there, blocks are the testBlocks the call found
PatchFirst ==
    /\ pc = "ready"
    /\ LET refs == <<[testIndex |-> failures[1].testIndex,
                      refinedAssertion |-> assertion]>>
           r    == patchYaml(doc, failures, refs)
           tb   == SplitBlocks(BodyOf(doc))
       IN  /\ refinements' = refs
           /\ written' = r.newYaml
           /\ blocks' = IF r.threw THEN <<>> ELSE tb
           /\ valueRest' = IF ~r.threw /\ PatchedLine(tb, failures[1], refs) > 0
                           THEN escapeForYaml(assertion) ELSE <<>>
           /\ pc' = IF r.threw THEN "threw" ELSE "patched"
    /\ UNCHANGED <<doc, failures, assertion, matched, othersRoundTrip>>

\* a later patchYaml reads the file the first one wrote; its failure record
\* carries the refined text as failingAssertion.  matched tells whether its
\* loop reaches line 172 at the line the first call wrote
PatchLater ==
    /\ pc = "patched"
    /\ LET k    == failures[1].testIndex
           fs   == <<[testIndex |-> k, failingAssertion |-> assertion]>>
           refs == <<[testIndex |-> k, refinedAssertion |-> txR]>>
           r    == patchYaml(written, fs, refs)
           was  == PatchedLine(blocks, failures[1], refinements)
           now  == PatchedLine(SplitBlocks(BodyOf(written)), fs[1], refs)
       IN  /\ doc' = written
           /\ failures' = fs
           /\ refinements' = refs
           /\ written' = r.newYaml
           /\ matched' = IF was > 0 /\ now = was THEN "yes" ELSE "no"
           /\ pc' = IF r.threw THEN "threw" ELSE "repatched"
    /\ UNCHANGED <<blocks, valueRest, assertion, othersRoundTrip>>

NextRoundTrip == PatchFirst \/ PatchLater

SpecRoundTrip == InitRoundTrip /\ [][NextRoundTrip]_vars

\* C21 as stated: for every refined text x the patcher writes, the written
\* value normalises (unescapeYamlValue, then norm) to norm(x), and the
\* patched line is matched by a later patch whose failing assertion is x.
C21_Original ==
    (pc = "repatched" /\ valueRest # <<>>) =>
        /\ norm(unescapeYamlValue(valueRest)) = norm(assertion)
        /\ matched = "yes"

====
